---- MODULE Spec2Model ----
(***************************************************************************)
(* xrdp-installer.py: one invocation of main(args) after another on one    *)
(* host.  Text that the program inspects (the distribution description,    *)
(* the first line of the state file) is modelled as tuples of one-character *)
(* strings so that `in`, readline() and strip() are computed, not assumed. *)
(* Every call of subprocess.run made by run_command is appended to         *)
(* `dispatched`; the state file /etc/xrdp/xrdp-installer-check.log is      *)
(* `log_file`.                                                             *)
(***************************************************************************)
EXTENDS Integers, Sequences, FiniteSets, TLC

\* Number of invocations of the script followed on one host.
MaxRuns == 2

\* Longest content handed to write_file_with_sudo, in blocks as a copy
\* writes them.
MaxBlocks == 2

----------------------------------------------------------------------------
\* Text literals of the source

SCRIPT_VER == "1.0.0"

Str_Ubuntu_24_04 == <<"U","b","u","n","t","u"," ","2","4",".","0","4">>
Str_Debian == <<"D","e","b","i","a","n">>
Str_unknown == <<"u","n","k","n","o","w","n">>
Str_standard == <<"s","t","a","n","d","a","r","d">>
Str_custom == <<"c","u","s","t","o","m">>

\* Outputs of `lsb_release -sd` on four hosts
Ver_Ubuntu_24_04 == <<"U","b","u","n","t","u"," ","2","4",".","0","4",".","1"," ","L","T","S">>
Ver_Debian_12 == <<"D","e","b","i","a","n"," ","G","N","U","/","L","i","n","u","x"," ","1","2"," ","(","b","o","o","k","w","o","r","m",")">>
Ver_Ubuntu_22_04 == <<"U","b","u","n","t","u"," ","2","2",".","0","4",".","5"," ","L","T","S">>
Ver_Ubuntu_24_10 == <<"U","b","u","n","t","u"," ","2","4",".","1","0">>

\* Desktop identifiers
Str_GNOME == <<"G","N","O","M","E">>
Str_ubuntu_GNOME == <<"u","b","u","n","t","u",":","G","N","O","M","E">>
Str_KDE == <<"K","D","E">>

\* Sound server names
Str_PipeWire == <<"P","i","p","e","W","i","r","e">>

Versions == {Ver_Ubuntu_24_04, Ver_Debian_12, Ver_Ubuntu_22_04, Ver_Ubuntu_24_10}

----------------------------------------------------------------------------
\* Python text operations

\* `v in s` for str
Contains(v, s) ==
    \E i \in 1..(Len(s) - Len(v) + 1) : SubSeq(s, i, i + Len(v) - 1) = v

Whitespace == {" ", "\t", "\n", "\r", "\f"}

RECURSIVE lstrip(_)
lstrip(s) ==
    IF s # <<>> /\ Head(s) \in Whitespace THEN lstrip(Tail(s)) ELSE s

RECURSIVE rstrip(_)
rstrip(s) ==
    IF s # <<>> /\ s[Len(s)] \in Whitespace
    THEN rstrip(SubSeq(s, 1, Len(s) - 1))
    ELSE s

\* str.strip()
strip(s) == rstrip(lstrip(s))

\* f.readline() on a freshly opened text file: up to and including the
\* first newline, or the whole content when there is none
readline(content) ==
    IF \E i \in 1..Len(content) : content[i] = "\n"
    THEN LET n == CHOOSE i \in 1..Len(content) :
                      /\ content[i] = "\n"
                      /\ \A j \in 1..(i - 1) : content[j] # "\n"
         IN  SubSeq(content, 1, n)
    ELSE content

\* What `bash -c 'echo <word> > file'` leaves in the file
echo(word) == word \o <<"\n">>

----------------------------------------------------------------------------
\* Host and invocation inputs

\* The flags of the argument parser
Args ==
    [custom : BOOLEAN, remove : BOOLEAN, dev : BOOLEAN, sound : BOOLEAN,
     verbose : BOOLEAN, cuda : BOOLEAN, nexarian : BOOLEAN]

\* os.environ of three sessions: an ssh login, an Ubuntu GNOME desktop and a
\* KDE desktop that sets only its own variables
Environs ==
    { [XDG_SESSION_TYPE |-> "tty"],
      [XDG_SESSION_TYPE |-> "x11", XDG_CURRENT_DESKTOP |-> Str_ubuntu_GNOME,
       GNOME_SHELL_SESSION_MODE |-> "ubuntu",
       XDG_DATA_DIRS |-> "/usr/share/ubuntu:/usr/share/gnome:/usr/local/share/:/usr/share/",
       GDMSESSION |-> "ubuntu"],
      [XDG_SESSION_TYPE |-> "wayland", XDG_CURRENT_DESKTOP |-> Str_KDE] }

\* os.environ.get(key, default)
environ_get(env, key, default) ==
    IF key \in DOMAIN env THEN env[key] ELSE default

\* The state file as the host can hold it when a run starts: missing, as
\* either marker write leaves it, empty, or a marker without a final newline
NoFile == [exists |-> FALSE, content |-> <<>>]

File(content) == [exists |-> TRUE, content |-> content]

LogFiles ==
    {NoFile, File(echo(Str_custom)), File(echo(Str_standard)), File(<<>>),
     File(Str_standard)}

\* Effective user ids: root and an ordinary user
Euids == {0, 1000}

----------------------------------------------------------------------------
\* Exceptions

NoException == [type |-> "None", msg |-> "", arg |-> <<>>]

SetupError(msg, arg) == [type |-> "SetupError", msg |-> msg, arg |-> arg]

NameError(name) ==
    [type |-> "NameError", msg |-> "name is not defined", arg |-> <<name>>]

\* The names bound at module level (imports, constants, globals, functions);
\* a name a function reads that is neither local nor one of these nor a
\* builtin raises NameError
module_globals ==
    {"os", "sys", "subprocess", "shutil", "getpass", "argparse", "tempfile",
     "re", "Path", "Optional", "SCRIPT_VER", "COLORS", "SetupError",
     "version", "codename", "release", "ucodename", "download_dir",
     "modetype", "DesktopVer", "SessionVer", "ConfDir", "GDMSess", "HWE",
     "print_colored", "run_command", "write_file_with_sudo",
     "display_banner", "check_previous_runs", "detect_desktop_environment",
     "check_os", "check_hwe", "install_cuda", "prep_os", "install_xrdp",
     "install_prereqs", "get_binaries", "compile_source", "enable_service",
     "install_common", "enable_sound", "remove_xrdp", "main"}

NameBound(name, locals) == name \in locals \/ name \in module_globals

----------------------------------------------------------------------------
VARIABLES
    version,        \* global: output of lsb_release -sd
    modetype,       \* global: mode read from the state file
    DesktopVer, SessionVer, ConfDir, GDMSess,   \* globals of the desktop probe
    HWE,            \* global: hardware-enablement flag
    args,           \* the parsed flags of this run
    euid,           \* os.geteuid() of this run
    environ,        \* os.environ of this run
    log_file,       \* /etc/xrdp/xrdp-installer-check.log
    log_file_at_start,  \* the state file as this run found it
    dispatched,     \* the commands this run handed to subprocess.run
    printed,        \* what this run printed
    raised,         \* the exception in flight or that ended the run
    exit_code,      \* the exit status of the process
    pc,             \* position in main, or in the function called
    run,            \* which invocation on this host this is
    probed,         \* the shell probes made through subprocess.getoutput
    fn,             \* the function being executed
    content,        \* write_file_with_sudo: the content argument, in blocks
    temp_file,      \* write_file_with_sudo: the staged temporary file
    dest_file,      \* write_file_with_sudo: the file at filepath
    dest_at_call,   \* write_file_with_sudo: the file at filepath when called
    same_fs,        \* whether the temporary directory and filepath share a filesystem
    download_dir    \* the entries present in the download directory

vars ==
    <<version, modetype, DesktopVer, SessionVer, ConfDir, GDMSess, HWE, args,
      euid, environ, log_file, log_file_at_start, dispatched, printed, raised,
      exit_code, pc, run, probed, fn, content, temp_file, dest_file,
      dest_at_call, same_fs, download_dir>>

\* What only a direct call of write_file_with_sudo or get_binaries touches
unit_vars ==
    <<fn, content, temp_file, dest_file, dest_at_call, same_fs, download_dir>>

desktop == <<DesktopVer, SessionVer, ConfDir, GDMSess>>

\* print_colored(text, color), the text kept with its interpolated value
print_colored(text, arg) == [text |-> text, arg |-> arg]

\* The command line run_command hands to the shell: the pieces of the
\* command text (literal text and interpolated values), elevated or not
full_command(command, sudo) == [command |-> command, sudo |-> sudo]

Range(seq) == {seq[i] : i \in DOMAIN seq}

----------------------------------------------------------------------------
\* The commands each step passes to run_command, in order

install_cuda ==
    << full_command(<<"wget https://developer.download.nvidia.com/compute/cuda/repos/ubuntu2204/x86_64/cuda-keyring_1.1-1_all.deb">>, FALSE),
       full_command(<<"dpkg -i cuda-keyring_1.1-1_all.deb">>, TRUE),
       full_command(<<"apt-get update">>, TRUE),
       full_command(<<"apt-get -y install cuda">>, TRUE) >>

\* The probe of enable_sound for the name of the sound server
sound_server_probe == "pactl info | grep 'Server Name' | cut -d: -f2"

\* `snd_server` is what the probe printed
enable_sound(snd_server) ==
    IF Contains(Str_PipeWire, snd_server)
    THEN << full_command(<<"apt install -y git pkg-config autotools-dev libtool make gcc libpipewire-0.3-dev libspa-0.2-dev">>, TRUE),
            full_command(<<"git clone https://github.com/neutrinolabs/pipewire-module-xrdp.git --recursive">>, FALSE),
            full_command(<<"./bootstrap">>, FALSE),
            full_command(<<"./configure">>, FALSE),
            full_command(<<"make">>, FALSE),
            full_command(<<"make install">>, TRUE) >>
    ELSE <<>>

remove_xrdp ==
    << full_command(<<"systemctl stop xrdp">>, TRUE),
       full_command(<<"apt-get autoremove xrdp -y">>, TRUE),
       full_command(<<"apt-get purge xrdp -y">>, TRUE) >>

prep_os(ver) ==
    (IF Contains(Str_Debian, ver)
     THEN << full_command(<<"sed -i 's/deb cdrom:/#deb cdrom:/' /etc/apt/sources.list">>, TRUE),
             full_command(<<"apt-get update">>, TRUE) >>
     ELSE <<>>)
    \o << full_command(<<"apt-get -y install pulseaudio-utils">>, TRUE) >>

install_xrdp == << full_command(<<"apt-get install xrdp -y">>, TRUE) >>

\* With HWE = "yes" the second command line reads the unbound name Release
\* and the function raises after the first command
install_prereqs(hwe) ==
    << full_command(<<"apt-get -y install ", "git jq xvfb libmp3lame-dev curl libfuse-dev libx11-dev libxfixes-dev libssl-dev libpam0g-dev libtool libjpeg-dev flex bison gettext autoconf libxml-parser-perl xsltproc libxrandr-dev python3-libxml2 nasm pkg-config intltool checkinstall">>, TRUE) >>
    \o (IF hwe = "yes"
        THEN <<>>
        ELSE << full_command(<<"apt-get install -y xserver-xorg-dev xserver-xorg-core">>, TRUE) >>)

\* `existing` are the directories among xrdp, xorgxrdp found in download_dir
\* get_binaries with the dev flag ignored: the neutrinolabs branch is
\* always "latest"
get_binaries_ignoring_dev(a, existing) ==
    LET repo == IF ~a.nexarian THEN "neutrinolabs" ELSE "Nexarian"
        branch == IF a.nexarian
                  THEN <<"mainline_merge">>
                  ELSE <<"--branch ", "latest">>
        rm(dir_name) ==
            IF dir_name \in existing
            THEN << full_command(<<"rm -rf ", dir_name>>, TRUE) >>
            ELSE <<>>
    IN  rm("xrdp") \o rm("xorgxrdp")
        \o << full_command(<<"git clone https://github.com/", repo, "/xrdp.git ">>
                              \o branch \o <<" xrdp --recursive">>, FALSE),
              full_command(<<"git clone https://github.com/", repo, "/xorgxrdp.git ">>
                              \o branch \o <<" xorgxrdp --recursive">>, FALSE) >>

get_binaries(a, existing) ==
    LET repo == IF ~a.nexarian THEN "neutrinolabs" ELSE "Nexarian"
        branch == IF a.nexarian
                  THEN <<"mainline_merge">>
                  ELSE <<"--branch ", IF a.dev THEN "HEAD" ELSE "latest">>
        rm(dir_name) ==
            IF dir_name \in existing
            THEN << full_command(<<"rm -rf ", dir_name>>, TRUE) >>
            ELSE <<>>
    IN  rm("xrdp") \o rm("xorgxrdp")
        \o << full_command(<<"git clone https://github.com/", repo, "/xrdp.git ">>
                              \o branch \o <<" xrdp --recursive">>, FALSE),
              full_command(<<"git clone https://github.com/", repo, "/xorgxrdp.git ">>
                              \o branch \o <<" xorgxrdp --recursive">>, FALSE) >>

\* The first four commands run in download_dir/xrdp, the last four in
\* download_dir/xorgxrdp
compile_source ==
    << full_command(<<"./bootstrap">>, TRUE),
       full_command(<<"./configure --enable-fuse --enable-jpeg --enable-rfxcodec --enable-mp3lame --enable-vsock">>, TRUE),
       full_command(<<"make -j ", "os.cpu_count()">>, TRUE),
       full_command(<<"checkinstall --pkgname=xrdp --default">>, TRUE),
       full_command(<<"./bootstrap">>, TRUE),
       full_command(<<"./configure">>, TRUE),
       full_command(<<"make -j ", "os.cpu_count()">>, TRUE),
       full_command(<<"checkinstall --pkgname=xorgxrdp --default">>, TRUE) >>

enable_service ==
    << full_command(<<"systemctl daemon-reload">>, TRUE),
       full_command(<<"systemctl enable xrdp.service">>, TRUE),
       full_command(<<"systemctl enable xrdp-sesman.service">>, TRUE),
       full_command(<<"systemctl start xrdp">>, TRUE) >>

install_common(desktop_ver) ==
    (IF Contains(Str_GNOME, desktop_ver)
     THEN << full_command(<<"apt-get install gnome-tweaks -y">>, TRUE) >>
     ELSE <<>>)
    \o << full_command(<<"sed -i 's/allowed_users=console/allowed_users=anybody/' /etc/X11/Xwrapper.config || echo 'allowed_users=anybody' > /etc/X11/Xwrapper.config">>, TRUE) >>

\* The marker writes of main
write_custom_marker ==
    full_command(<<"bash -c 'echo custom > /etc/xrdp/xrdp-installer-check.log'">>, TRUE)

write_standard_marker ==
    full_command(<<"bash -c 'echo standard > /etc/xrdp/xrdp-installer-check.log'">>, TRUE)

\* The probes the module makes when it is loaded, before main is entered
module_probes ==
    << "lsb_release -sd", "lsb_release -sc", "lsb_release -sr",
       "cat /etc/os-release | grep UBUNTU_CODENAME | cut -d'=' -f2",
       "xdg-user-dir DOWNLOAD" >>

Init ==
    /\ version \in Versions
    /\ modetype = Str_unknown
    /\ DesktopVer = <<>> /\ SessionVer = "" /\ ConfDir = "" /\ GDMSess = ""
    /\ HWE = ""
    /\ args \in Args
    /\ euid \in Euids
    /\ environ \in Environs
    /\ log_file \in LogFiles
    /\ log_file_at_start = log_file
    /\ dispatched = <<>>
    /\ printed = <<>>
    /\ raised = NoException
    /\ exit_code = 0
    /\ pc = "main"
    /\ run = 1
    /\ probed = module_probes
    /\ fn = "main"
    /\ content = <<>>
    /\ temp_file = NoFile
    /\ dest_file = NoFile
    /\ dest_at_call = NoFile
    /\ same_fs = TRUE
    /\ download_dir = {}

\* raise: control leaves the function for the handler of main
raise(e) ==
    /\ raised' = e
    /\ pc' = "raised"

\* The test the other way round: root required instead of refused
is_elevated_inverted(uid) == uid # 0

\* os.geteuid() == 0
is_elevated(uid) == uid = 0

\* main: the privilege check
privilege_check ==
    /\ pc = "main"
    /\ IF is_elevated(euid)
       THEN raise(SetupError("Script must not run with sudo", <<>>))
       ELSE /\ pc' = "display_banner"
            /\ UNCHANGED raised
    /\ UNCHANGED <<unit_vars, probed, version, modetype, desktop, HWE, args,
                   euid, environ, log_file, log_file_at_start, dispatched,
                   printed, exit_code, run>>

display_banner ==
    /\ pc = "display_banner"
    /\ printed' = printed \o
          << print_colored("   ! xrdp-cuda-installer-{SCRIPT_VER} Script", <<SCRIPT_VER>>),
             print_colored("   ! Supports Ubuntu, Debian with optional CUDA installation", <<>>),
             print_colored("   ! Written by David Rush - Feb 2025", <<>>),
             print_colored("   ! For Help: {sys.argv[0]} -h", <<"sys.argv[0]">>),
             print_colored("   ! Disclaimer: Use at your own risk", <<>>) >>
    /\ pc' = "check_previous_runs"
    /\ UNCHANGED <<unit_vars, probed, version, modetype, desktop, HWE, args,
                   euid, environ, log_file, log_file_at_start, dispatched,
                   raised, exit_code, run>>

\* The first line kept with its line end
read_mode_unstripped(text) == readline(text)

\* f.readline().strip()
read_mode(text) == strip(readline(text))

\* The state file opened for writing instead of reading: it is emptied
check_previous_runs_truncating ==
    /\ pc = "check_previous_runs"
    /\ IF log_file.exists
       THEN /\ log_file' = File(<<>>)
            /\ modetype' = <<>>
            /\ printed' =
                  IF args.verbose
                  THEN Append(printed,
                              print_colored("   Previous mode detected: ", modetype'))
                  ELSE printed
       ELSE UNCHANGED <<modetype, printed, log_file>>
    /\ pc' = "detect_desktop_environment"
    /\ UNCHANGED <<unit_vars, probed, version, desktop, HWE, args, euid,
                   environ, log_file_at_start, dispatched, raised,
                   exit_code, run>>

check_previous_runs ==
    /\ pc = "check_previous_runs"
    /\ IF log_file.exists
       THEN /\ modetype' = read_mode(log_file.content)
            /\ printed' =
                  IF args.verbose
                  THEN Append(printed,
                              print_colored("   Previous mode detected: ", modetype'))
                  ELSE printed
       ELSE UNCHANGED <<modetype, printed>>
    /\ pc' = "detect_desktop_environment"
    /\ UNCHANGED <<unit_vars, probed, version, desktop, HWE, args, euid,
                   environ, log_file, log_file_at_start, dispatched, raised,
                   exit_code, run>>

detect_desktop_environment ==
    /\ pc = "detect_desktop_environment"
    /\ IF environ_get(environ, "XDG_SESSION_TYPE", "None") = "tty"
       THEN /\ DesktopVer' = Str_ubuntu_GNOME
            /\ SessionVer' = "ubuntu"
            /\ ConfDir' = "/usr/share/ubuntu:/usr/local/share/:/usr/share/:/var/lib/snapd/desktop"
            /\ GDMSess' = "ubuntu"
       ELSE /\ DesktopVer' = environ_get(environ, "XDG_CURRENT_DESKTOP", Str_ubuntu_GNOME)
            /\ SessionVer' = environ_get(environ, "GNOME_SHELL_SESSION_MODE", "ubuntu")
            /\ ConfDir' = environ_get(environ, "XDG_DATA_DIRS",
                                      "/usr/share/ubuntu:/usr/local/share/:/usr/share/")
            /\ GDMSess' = environ_get(environ, "GDMSESSION", "ubuntu")
    /\ pc' = "check_os"
    /\ UNCHANGED <<unit_vars, probed, version, modetype, HWE, args, euid,
                   environ, log_file, log_file_at_start, dispatched, printed,
                   raised, exit_code, run>>

supported == {Str_Ubuntu_24_04, Str_Debian}

\* Any Ubuntu release accepted, as the header of the script announces
os_supported_any_ubuntu(ver) ==
    \E v \in {<<"U","b","u","n","t","u">>, Str_Debian} : Contains(v, ver)

\* any(v in version for v in supported)
os_supported(ver) == \E v \in supported : Contains(v, ver)

check_os ==
    /\ pc = "check_os"
    /\ IF ~os_supported(version)
       THEN raise(SetupError("Unsupported OS: ", version))
       ELSE /\ pc' = "check_hwe"
            /\ UNCHANGED raised
    /\ UNCHANGED <<unit_vars, probed, version, modetype, desktop, HWE, args,
                   euid, environ, log_file, log_file_at_start, dispatched,
                   printed, exit_code, run>>

\* check_hwe: the first package query is a read-only probe; building the
\* command line of the second one evaluates the name Release, which is
\* bound nowhere, so the function raises before HWE is assigned
check_hwe ==
    /\ pc = "check_hwe"
    /\ ~NameBound("Release", {"xorg_no_hwe", "xorg_hwe", "verbose"})
    /\ probed' = Append(probed, "dpkg-query -W -f='${Status}' xserver-xorg-core 2>/dev/null")
    /\ raise(NameError("Release"))
    /\ UNCHANGED <<unit_vars, version, modetype, desktop, HWE, args,
                   euid, environ, log_file, log_file_at_start, dispatched,
                   printed, exit_code, run>>

\* A handler that starts main over instead of leaving the process
except_SetupError_retrying ==
    /\ pc = "raised"
    /\ raised.type = "SetupError"
    /\ pc' = "main"
    /\ UNCHANGED <<unit_vars, probed, version, modetype, desktop, HWE, args,
                   euid, environ, log_file, log_file_at_start, dispatched,
                   printed, exit_code, raised, run>>

\* main: except SetupError as e: print and sys.exit(1)
except_SetupError ==
    /\ pc = "raised"
    /\ raised.type = "SetupError"
    /\ printed' = Append(printed, print_colored("Setup failed: ", <<raised.msg, raised.arg>>))
    /\ exit_code' = 1
    /\ pc' = "exited"
    /\ UNCHANGED <<unit_vars, probed, version, modetype, desktop, HWE, args,
                   euid, environ, log_file, log_file_at_start, dispatched,
                   raised, run>>

\* An exception that is no SetupError leaves main; the interpreter prints
\* the traceback and the process ends with status 1
uncaught_exception ==
    /\ pc = "raised"
    /\ raised.type # "SetupError"
    /\ exit_code' = 1
    /\ pc' = "exited"
    /\ UNCHANGED <<unit_vars, probed, version, modetype, desktop, HWE, args,
                   euid, environ, log_file, log_file_at_start, dispatched,
                   printed, raised, run>>

\* The script is started again on the same host: a new process, with the
\* module-level globals initialised anew and the state file as it was left
invoke ==
    /\ pc = "exited"
    /\ run < MaxRuns
    /\ run' = run + 1
    /\ modetype' = Str_unknown
    /\ DesktopVer' = <<>> /\ SessionVer' = "" /\ ConfDir' = "" /\ GDMSess' = ""
    /\ HWE' = ""
    /\ args' \in Args
    /\ euid' \in Euids
    /\ environ' \in Environs
    /\ log_file_at_start' = log_file
    /\ dispatched' = <<>>
    /\ printed' = <<>>
    /\ raised' = NoException
    /\ exit_code' = 0
    /\ pc' = "main"
    /\ probed' = module_probes
    /\ UNCHANGED <<unit_vars, version, log_file>>

Next ==
    \/ privilege_check
    \/ display_banner
    \/ check_previous_runs
    \/ detect_desktop_environment
    \/ check_os
    \/ check_hwe
    \/ except_SetupError
    \/ uncaught_exception
    \/ invoke

Spec == Init /\ [][Next]_vars

\* The statements of one process: everything but the start of a new one
RunStep ==
    \/ privilege_check
    \/ display_banner
    \/ check_previous_runs
    \/ detect_desktop_environment
    \/ check_os
    \/ check_hwe
    \/ except_SetupError
    \/ uncaught_exception

\* A started process keeps executing: the interpreter runs the next
\* statement of main, which is sequential and waits for nothing but the
\* commands it runs.  Whether the script is started again is left open.
FairSpec == Spec /\ WF_vars(RunStep)

----------------------------------------------------------------------------
\* Direct calls of write_file_with_sudo and get_binaries, the two functions
\* with their own logic around the commands they run.  Every external
\* command either succeeds or exits non-zero.

\* What is left of main's state during such a call
main_vars ==
    <<version, modetype, desktop, HWE, euid, environ, log_file,
      log_file_at_start, exit_code, run, probed>>

Blocks == {"x", "y"}

Contents == UNION { [1..n -> Blocks] : n \in 0..MaxBlocks }

OldContent == <<"old">>

\* The flags a direct call reads; the others are left unset
UnitArgs(free) ==
    { a \in Args : \A f \in DOMAIN a : f \notin free => ~a[f] }

UnitInit ==
    /\ version = Ver_Ubuntu_24_04
    /\ modetype = Str_unknown
    /\ DesktopVer = <<>> /\ SessionVer = "" /\ ConfDir = "" /\ GDMSess = ""
    /\ HWE = ""
    /\ euid = 1000
    /\ environ = [XDG_SESSION_TYPE |-> "tty"]
    /\ log_file = NoFile
    /\ log_file_at_start = NoFile
    /\ dispatched = <<>>
    /\ printed = <<>>
    /\ raised = NoException
    /\ exit_code = 0
    /\ run = 1
    /\ probed = module_probes
    /\ pc = "call"
    /\ temp_file = NoFile
    /\ \/ /\ fn = "write_file_with_sudo"
          /\ args \in UnitArgs({"verbose"})
          /\ content \in Contents
          /\ dest_file \in {NoFile, File(OldContent)}
          /\ same_fs \in BOOLEAN
          /\ download_dir = {}
       \/ /\ fn = "get_binaries"
          /\ args \in UnitArgs({"verbose", "dev", "nexarian"})
          /\ content = <<>>
          /\ dest_file = NoFile
          /\ same_fs = TRUE
          /\ download_dir \in SUBSET {"xrdp", "xorgxrdp"}
    /\ dest_at_call = dest_file

\* run_command up to subprocess.run: the command line is built, announced
\* when verbose, and handed to the shell
run_command(command, sudo) ==
    /\ dispatched' = Append(dispatched, full_command(command, sudo))
    /\ printed' =
          IF args.verbose
          THEN Append(printed,
                      print_colored("Executing: ", full_command(command, sudo)))
          ELSE printed

\* run_command on a non-zero exit
CommandFailed(command, sudo) ==
    SetupError("Command failed: ", <<full_command(command, sudo)>>)

\* write_file_with_sudo: every exception is re-raised as this one
WriteFailed == SetupError("Failed to write file ", <<"filepath">>)

mv_command == <<"mv ", "temp_path", " ", "filepath">>

chmod_command == <<"chmod 644 ", "filepath">>

\* The temporary file still open when it is moved: nothing flushed to it yet
staged_unflushed(text) == <<>>

\* What the temporary file holds once the with block has closed it
staged(text) == text

write_file_enter ==
    /\ pc = "call"
    /\ fn = "write_file_with_sudo"
    /\ printed' =
          IF args.verbose
          THEN Append(printed, print_colored("Writing to ", <<"filepath">>))
          ELSE printed
    /\ pc' = "wf_stage"
    /\ UNCHANGED <<main_vars, args, dispatched, raised, unit_vars>>

\* The with block: create the temporary file, write the content, close it.
\* When that fails the file, if created, holds a part of the content.
stage_temp ==
    /\ pc = "wf_stage"
    /\ \/ /\ temp_file' = File(staged(content))
          /\ pc' = "wf_mv"
          /\ UNCHANGED raised
       \/ /\ temp_file' \in
                {NoFile} \cup
                { File(SubSeq(content, 1, k)) : k \in 0..(Len(content) - 1) }
          /\ raise(WriteFailed)
    /\ UNCHANGED <<main_vars, args, dispatched, printed, fn, content,
                   dest_file, dest_at_call, same_fs, download_dir>>

mv_dispatch ==
    /\ pc = "wf_mv"
    /\ run_command(mv_command, TRUE)
    /\ pc' = "wf_mv_running"
    /\ UNCHANGED <<main_vars, args, raised, unit_vars>>

\* mv within one filesystem: rename(2)
mv_rename ==
    /\ pc = "wf_mv_running"
    /\ same_fs
    /\ dest_file' = temp_file
    /\ temp_file' = NoFile
    /\ pc' = "wf_chmod"
    /\ UNCHANGED <<main_vars, args, dispatched, printed, raised, fn, content,
                   dest_at_call, same_fs, download_dir>>

\* mv across filesystems: the destination is removed, then written block by
\* block, then the source is removed
mv_unlink_dest ==
    /\ pc = "wf_mv_running"
    /\ ~same_fs
    /\ dest_file' = NoFile
    /\ pc' = "wf_mv_copy"
    /\ UNCHANGED <<main_vars, args, dispatched, printed, raised, fn, content,
                   temp_file, dest_at_call, same_fs, download_dir>>

mv_copy_block ==
    /\ pc = "wf_mv_copy"
    /\ \/ /\ ~dest_file.exists
          /\ dest_file' = File(<<>>)
       \/ /\ dest_file.exists
          /\ Len(dest_file.content) < Len(temp_file.content)
          /\ dest_file' = File(SubSeq(temp_file.content, 1,
                                      Len(dest_file.content) + 1))
    /\ UNCHANGED <<main_vars, args, dispatched, printed, raised, pc, fn,
                   content, temp_file, dest_at_call, same_fs, download_dir>>

mv_remove_source ==
    /\ pc = "wf_mv_copy"
    /\ dest_file = temp_file
    /\ temp_file' = NoFile
    /\ pc' = "wf_chmod"
    /\ UNCHANGED <<main_vars, args, dispatched, printed, raised, fn, content,
                   dest_file, dest_at_call, same_fs, download_dir>>

\* mv exits non-zero where it stands (refused, I/O error, no space left)
mv_fails ==
    /\ pc \in {"wf_mv_running", "wf_mv_copy"}
    /\ raise(WriteFailed)
    /\ UNCHANGED <<main_vars, args, dispatched, printed, unit_vars>>

chmod_file ==
    /\ pc = "wf_chmod"
    /\ run_command(chmod_command, TRUE)
    /\ \/ pc' = "returned" /\ UNCHANGED raised
       \/ raise(WriteFailed)
    /\ UNCHANGED <<main_vars, args, unit_vars>>

\* get_binaries: the loop over xrdp and xorgxrdp that removes what is there
get_binaries_remove ==
    /\ fn = "get_binaries"
    /\ pc \in {"call", "gb_rm_xorgxrdp"}
    /\ LET dir_name == IF pc = "call" THEN "xrdp" ELSE "xorgxrdp"
           next == IF pc = "call" THEN "gb_rm_xorgxrdp" ELSE "gb_clone_xrdp"
           rm == get_binaries(args, {dir_name})[1]
       IN  IF dir_name \in download_dir
           THEN /\ run_command(rm.command, rm.sudo)
                /\ \/ /\ download_dir' = download_dir \ {dir_name}
                      /\ pc' = next
                      /\ UNCHANGED raised
                   \/ /\ raise(CommandFailed(rm.command, rm.sudo))
                      /\ UNCHANGED download_dir
           ELSE /\ pc' = next
                /\ UNCHANGED <<dispatched, printed, raised, download_dir>>
    /\ UNCHANGED <<main_vars, args, fn, content, temp_file, dest_file,
                   dest_at_call, same_fs>>

\* git clone takes a repository and at most one directory: a word after the
\* repository that is not an option is the directory, and one more is refused
git_clone_accepts(command) == command[4] = "--branch "

\* get_binaries: the two clones
get_binaries_clone ==
    /\ fn = "get_binaries"
    /\ pc \in {"gb_clone_xrdp", "gb_clone_xorgxrdp"}
    /\ LET dir_name == IF pc = "gb_clone_xrdp" THEN "xrdp" ELSE "xorgxrdp"
           next == IF pc = "gb_clone_xrdp" THEN "gb_clone_xorgxrdp" ELSE "returned"
           clone == get_binaries(args, {})[IF pc = "gb_clone_xrdp" THEN 1 ELSE 2]
       IN  /\ run_command(clone.command, clone.sudo)
           /\ \/ /\ git_clone_accepts(clone.command)
                 /\ download_dir' = download_dir \cup {dir_name}
                 /\ pc' = next
                 /\ UNCHANGED raised
              \/ /\ raise(CommandFailed(clone.command, clone.sudo))
                 /\ UNCHANGED download_dir
    /\ UNCHANGED <<main_vars, args, fn, content, temp_file, dest_file,
                   dest_at_call, same_fs>>

UnitNext ==
    \/ write_file_enter
    \/ stage_temp
    \/ mv_dispatch
    \/ mv_rename
    \/ mv_unlink_dest
    \/ mv_copy_block
    \/ mv_remove_source
    \/ mv_fails
    \/ chmod_file
    \/ get_binaries_remove
    \/ get_binaries_clone

SpecUnit == UnitInit /\ [][UnitNext]_vars

----------------------------------------------------------------------------
\* Properties

\* The run has passed check_previous_runs
HasReadState ==
    /\ ~is_elevated(euid)
    /\ pc \notin {"main", "display_banner", "check_previous_runs"}

\* Every command either install branch can dispatch
BranchActions ==
    UNION { Range(install_prereqs(h)) : h \in {"yes", "no"} }
    \cup UNION { Range(get_binaries(a, {"xrdp", "xorgxrdp"})) : a \in Args }
    \cup Range(compile_source) \cup Range(enable_service)
    \cup Range(install_xrdp)
    \cup UNION { Range(install_common(d)) : d \in {Str_ubuntu_GNOME, Str_KDE} }
    \cup {write_custom_marker, write_standard_marker}

\* C3: a run with the remove flag set (not elevated, on a supported
\* platform), whatever the other flags and the prior marker, dispatches
\* exactly the three removal actions and nothing else, and exits with 0.
C3_RemoveDispatchesOnlyRemoval ==
    (pc = "exited" /\ args.remove /\ euid # 0 /\ os_supported(version))
        => (dispatched = remove_xrdp /\ exit_code = 0)

\* C4: a run started with effective uid 0 goes from the privilege check
\* straight to the handler: it raises the privilege SetupError, dispatches
\* no command at any point, reads and probes nothing, and exits with 1
\* after printing the failure.
C4_ElevatedRunFailsBeforeAnyAction ==
    euid = 0 =>
        /\ dispatched = <<>>
        /\ pc \in {"main", "raised", "exited"}
        /\ modetype = Str_unknown
        /\ pc # "main" =>
              raised = SetupError("Script must not run with sudo", <<>>)
        /\ pc = "exited" =>
              /\ exit_code = 1
              /\ printed = << print_colored("Setup failed: ",
                                            <<raised.msg, raised.arg>>) >>

C4_Witness ==
    /\ euid = 0
    /\ pc = "exited"
    /\ exit_code = 1
    /\ args.custom /\ args.cuda /\ ~args.remove
    /\ log_file.exists
    /\ os_supported(version)

\* C5: with custom, remove, cuda and sound all unset, no state file, a
\* supported platform and no elevation, the finished run has dispatched the
\* packaged install exactly once, followed by the common fixups and the
\* write of the standard marker, the state file holds `standard`, and the
\* exit code is 0.
C5_StandardInstallCompletes ==
    ( /\ pc = "exited"
      /\ ~args.custom /\ ~args.remove /\ ~args.cuda /\ ~args.sound
      /\ ~log_file_at_start.exists
      /\ euid # 0
      /\ os_supported(version) )
    => LET branch == install_xrdp \o install_common(DesktopVer)
                         \o <<write_standard_marker>>
           n == Len(dispatched) - Len(branch)
       IN  /\ n >= 0
           /\ SubSeq(dispatched, n + 1, Len(dispatched)) = branch
           /\ install_xrdp[1] \notin Range(SubSeq(dispatched, 1, n))
           /\ log_file = File(echo(Str_standard))
           /\ exit_code = 0

\* C6: when the marker read at startup names the mode opposite to the
\* requested one, the finished run (not elevated, supported platform, no
\* removal) has dispatched no action of either install branch, has left the
\* state file as it found it, has raised nothing, and exits with 0.
C6_OpposingMarkerSkipsSilently ==
    ( /\ pc = "exited"
      /\ ~args.remove
      /\ euid # 0
      /\ os_supported(version)
      /\ \/ args.custom /\ modetype = Str_standard
         \/ ~args.custom /\ modetype = Str_custom )
    => /\ Range(dispatched) \cap BranchActions = {}
       /\ log_file = log_file_at_start
       /\ raised = NoException
       /\ exit_code = 0

\* C7: once a run has read the state store, a state file holding what the
\* custom marker write leaves there has been read as the mode `custom`, and
\* a missing state file has left the mode at its initial value, which is
\* neither `standard` nor `custom`, and the read has raised nothing.
C7_StateStoreRoundTrip ==
    HasReadState =>
        /\ log_file = File(echo(Str_custom)) => modetype = Str_custom
        /\ ~log_file.exists =>
              /\ modetype = Str_unknown
              /\ modetype \notin {Str_standard, Str_custom}
        /\ pc = "detect_desktop_environment" => raised = NoException

C7_Witness ==
    /\ pc = "detect_desktop_environment"
    /\ log_file = File(echo(Str_custom))
    /\ modetype = Str_custom
    /\ raised = NoException

WriteOrder ==
    /\ \E k \in 0..2 :
          dispatched = SubSeq(<<full_command(mv_command, TRUE),
                                full_command(chmod_command, TRUE)>>, 1, k)
    /\ Len(dispatched) >= 1 =>
          \/ temp_file = File(content)
          \/ temp_file = NoFile /\ dest_file = File(content)
    /\ Len(dispatched) = 2 => dest_file = File(content)

\* C11 as stated: in every state of a call of write_file_with_sudo the
\* order above holds and the destination holds what it held when the call
\* began or the complete new content.
C11_DestinationNeverPartialAnywhere ==
    fn = "write_file_with_sudo" =>
        /\ WriteOrder
        /\ dest_file \in {dest_at_call, File(content)}

\* C11 amended: the order holds in every state; the destination holds its
\* previous content or the complete new content in every state when the
\* temporary directory and the destination are on one filesystem, where mv
\* is a rename.
C11_DestinationNeverPartial ==
    fn = "write_file_with_sudo" =>
        /\ WriteOrder
        /\ same_fs => dest_file \in {dest_at_call, File(content)}

C11_Witness ==
    /\ fn = "write_file_with_sudo"
    /\ same_fs
    /\ pc = "returned"
    /\ dest_at_call = File(OldContent)
    /\ Len(content) >= 2
    /\ dest_file = File(content)
    /\ Len(dispatched) = 2

\* A finished run that was not elevated, on a supported platform
FinishedPastChecks ==
    /\ fn = "main"
    /\ pc = "exited"
    /\ euid # 0
    /\ os_supported(version)

\* seq holds part as a block of consecutive elements ending at position n
EndsAt(seq, part, n) ==
    /\ n - Len(part) >= 0
    /\ n <= Len(seq)
    /\ SubSeq(seq, n - Len(part) + 1, n) = part

\* The commands only the audio bridge dispatches
AudioBridgeActions == Range(enable_sound(Str_PipeWire))

\* C12: a finished run with the sound flag and without the remove flag has
\* probed the sound server, as the last probe of the run and after every
\* action of the main-mode step; audio-bridge actions, if any, are the last
\* actions dispatched and follow that probe; a run without the sound flag
\* has dispatched no audio-bridge action.
C12_SoundStepLast ==
    FinishedPastChecks =>
        /\ (args.sound /\ ~args.remove) =>
              /\ probed # <<>>
              /\ probed[Len(probed)] = sound_server_probe
        /\ (Range(dispatched) \cap AudioBridgeActions # {}) =>
              /\ sound_server_probe \in Range(probed)
              /\ EndsAt(dispatched, enable_sound(Str_PipeWire), Len(dispatched))
        /\ ~args.sound => Range(dispatched) \cap AudioBridgeActions = {}

\* C15: in a finished run the CUDA install actions have been dispatched
\* exactly when the cuda flag is set and the remove flag is not, whatever
\* the custom flag and the prior marker; when dispatched they are the first
\* actions of the run.
C15_CudaIffFlagged ==
    FinishedPastChecks =>
        IF args.cuda /\ ~args.remove
        THEN EndsAt(dispatched, install_cuda, Len(install_cuda))
        ELSE Range(dispatched) \cap
                 (Range(install_cuda) \ Range(prep_os(version))) = {}

\* C18: a finished run without the remove flag has dispatched the
\* OS-preparation actions of prep_os, in order, with no action of either
\* install branch before them, whatever the custom flag and the marker.
C18_PrepOsBeforeGuard ==
    (FinishedPastChecks /\ ~args.remove) =>
        \E n \in 1..Len(dispatched) :
            /\ EndsAt(dispatched, prep_os(version), n)
            /\ Range(SubSeq(dispatched, 1, n)) \cap BranchActions = {}

IsClone(c) == c.command[1] = "git clone https://github.com/"
Clones == { c \in Range(dispatched) : IsClone(c) }
Location(c) == c.command[2]
BranchPolicy(c) == SubSeq(c.command, 4, Len(c.command) - 1)

LocationByFork == IF args.nexarian THEN "Nexarian" ELSE "neutrinolabs"
BranchByDev == <<"--branch ", IF args.dev THEN "HEAD" ELSE "latest">>

MaxDispatched ==
    Len(install_cuda) + Len(prep_os(Ver_Debian_12))
    + Len(install_prereqs("yes")) + Len(get_binaries(args, {"xrdp", "xorgxrdp"}))
    + Len(compile_source) + Len(enable_service)
    + Len(install_common(Str_ubuntu_GNOME)) + Len(<<write_custom_marker>>)
    + Len(enable_sound(Str_PipeWire))

C20_EveryRunTerminates ==
    /\ [](fn = "main" => Len(dispatched) <= MaxDispatched)
    /\ [](pc = "exited" => exit_code \in {0, 1})
    /\ (pc # "exited") ~> (pc = "exited")

C20_Witness ==
    /\ fn = "main"
    /\ run = 2
    /\ pc = "exited"
    /\ exit_code = 1
    /\ raised = NameError("Release")
    /\ args.custom
    /\ args.sound

====
